---- MODULE Spec2Model ----
(***************************************************************************)
(* Blumira MSP dashboard: the organizations endpoint (token acquisition,   *)
(* accounts list, per-organization aggregation, totals reducer) and the    *)
(* credentials endpoint (status GET, POST, DELETE on .env.local and        *)
(* process.env).                                                           *)
(***************************************************************************)
EXTENDS Integers, Sequences, FiniteSets, TLC

\* ------------------------------------------------------------------ bounds
MaxOrgs == 2        \* accounts returned by the accounts-list endpoint
MaxDevices == 1     \* devices in one devices payload (rich input set)
MaxFindings == 1    \* findings in one findings payload (rich input set)
MaxKeys == 1        \* keys in one keys payload
MaxCalls == 3       \* fetchData calls of the Dashboard component

\* ------------------------------------------------------- JavaScript values
\* `undefined` and NaN in a numeric slot; `undefined` in a string slot.
Undef == -1
NaN == -2
UndefStr == "<undefined>"

\* JSON values that can stand where the code expects an array.
JList(s) == [t |-> "list", items |-> s]
JObject == [t |-> "object"]                   \* a truthy value that is no array
JNull == [t |-> "null"]                       \* null / absent: falsy

Truthy(v) == v.t # "null"

\* x || 0 on a numeric slot, x || "Unknown" on a string slot.
OrZero(x) == IF x = Undef \/ x = NaN \/ x = 0 THEN 0 ELSE x
OrUnknown(s) == IF s = UndefStr \/ s = "" THEN "Unknown" ELSE s

\* a + b of JavaScript on numeric slots: undefined and NaN poison the sum.
JsAdd(a, b) == IF a < 0 \/ b < 0 THEN NaN ELSE a + b

\* An account-detail object: the fields fetchAccountDetails reads from it.
DObj(lic, avail, used, users) ==
    [t |-> "object", license |-> lic, agent_count_available |-> avail,
     agent_count_used |-> used, user_count |-> users]
DNull == [t |-> "null"]

\* accountDetails?.field: undefined on null and on an object without it.
NumField(d, f) == IF f \in DOMAIN d THEN d[f] ELSE Undef
StrField(d, f) == IF f \in DOMAIN d THEN d[f] ELSE UndefStr

\* ------------------------------------------------------- upstream responses
\* Parsed JSON bodies: the {status, data, meta} envelope, a bare payload, or
\* the JSON value null.
Envelope(st, d) == [shape |-> "envelope", status |-> st, data |-> d, meta |-> "meta"]
Bare(p) == [shape |-> "bare", self |-> p]
NullBody == [shape |-> "null"]
NoBody == [shape |-> "none"]

\* body.status === "OK" && body.data
Wrapped(body) == body.shape = "envelope" /\ body.status = "OK" /\ Truthy(body.data)
\* The body read as the payload itself: a bare payload, or an envelope, which
\* has none of the payload's fields.
AsPayload(body) == IF body.shape = "bare" THEN body.self ELSE [t |-> "object"]

\* What one fetch can end in: a network rejection, a non-2xx status, a 2xx
\* whose body does not parse, a 2xx with a parsed body.
Rejected == [k |-> "reject", status |-> 0, body |-> NoBody]
Http(s) == [k |-> "http", status |-> s, body |-> NoBody]
BadJson == [k |-> "badjson", status |-> 200, body |-> NoBody]
Json(b) == [k |-> "json", status |-> 200, body |-> b]
NoResp == [k |-> "none", status |-> 0, body |-> NoBody]
\* A non-2xx status with a response text; Http(s) has an empty one.
HttpWith(s, text) == [k |-> "http", status |-> s, body |-> NoBody, text |-> text]
\* await response.text() of a non-2xx response.
ResponseText(r) == IF "text" \in DOMAIN r THEN r.text ELSE ""

\* response.ok, and whether the inner try block of a fetch runs to its end
\* (fetch resolved, json() parsed, and body.status did not throw on null).
Ok(r) == r.k \in {"json", "badjson"}
Reads(r) == r.k = "json" /\ r.body.shape # "null"


\* ------------------------------------------- fetchAccountDetails: the parts
\* The four per-account calls, in the order the code awaits them.
Calls == <<"details", "devices", "keys", "findings">>

\* Lines 58-68: the value accountDetails has after the details fetch; cur is
\* the value it had before.
AccountDetailsOf(r, cur) ==
    IF Reads(r)
    THEN IF Wrapped(r.body) THEN r.body.data ELSE AsPayload(r.body)
    ELSE cur

\* Lines 84-89, 108-113, 132-137: the list a devices / keys / findings fetch
\* leaves in agentDevices / agentKeys / findings; cur is the value before.
ListOf(r, cur) ==
    IF Reads(r) /\ Wrapped(r.body) THEN r.body.data ELSE cur

\* Lines 88, 112, 136: the meta kept beside the list.
MetaOf(r, cur) ==
    IF Reads(r) /\ Wrapped(r.body) THEN r.body.meta ELSE cur

\* value.length: undefined on a value that has none.
LengthOf(v) == IF v.t = "list" THEN Len(v.items) ELSE Undef

IsOnline(device) == ~device.is_sleeping /\ device.alive
IsSleeping(device) == device.is_sleeping
IsIsolated(device) == device.is_isolated
IsExcluded(device) == device.is_excluded
IsCritical(f) == f.priority = 1

\* IsOpen that ignores the case of the first letter.
IsOpen_AnyCase(f) == f.status_name \in {"Open", "open"}

IsOpen(f) == f.status_name = "Open"

\* Lines 146-160 throw a TypeError when .filter is called on a value that is
\* no array (agentDevices at line 146, findings at line 159).
ComputeThrows(loc) == loc.agentDevices.t # "list" \/ loc.findings.t # "list"

\* Lines 151-175: the record fetchAccountDetails returns.
DetailsRecord(loc) ==
    [accountDetails |-> loc.accountDetails,
     agentDevices |-> loc.agentDevices,
     agentKeys |-> loc.agentKeys,
     findings |-> loc.findings,
     agentDeviceCount |-> LengthOf(loc.agentDevices),
     agentKeyCount |-> LengthOf(loc.agentKeys),
     findingsCount |-> LengthOf(loc.findings),
     criticalFindingsCount |-> Len(SelectSeq(loc.findings.items, IsCritical)),
     openFindingsCount |-> Len(SelectSeq(loc.findings.items, IsOpen)),
     onlineDevices |-> Len(SelectSeq(loc.agentDevices.items, IsOnline)),
     sleepingDevices |-> Len(SelectSeq(loc.agentDevices.items, IsSleeping)),
     isolatedDevices |-> Len(SelectSeq(loc.agentDevices.items, IsIsolated)),
     excludedDevices |-> Len(SelectSeq(loc.agentDevices.items, IsExcluded)),
     agent_count_available |-> OrZero(NumField(loc.accountDetails, "agent_count_available")),
     agent_count_used |-> OrZero(NumField(loc.accountDetails, "agent_count_used")),
     license |-> OrUnknown(StrField(loc.accountDetails, "license")),
     user_count |-> OrZero(NumField(loc.accountDetails, "user_count")),
     agentDevicesMeta |-> loc.agentDevicesMeta,
     agentKeysMeta |-> loc.agentKeysMeta,
     findingsMeta |-> loc.findingsMeta]

\* InitLocals with agentDevices starting from a placeholder device instead of
\* the empty list.
InitLocals_PlaceholderDevice ==
    [accountDetails |-> DNull,
     agentDevices |-> JList(<<[is_excluded |-> FALSE, is_isolated |-> FALSE,
                              is_sleeping |-> FALSE, alive |-> TRUE]>>),
     agentKeys |-> JList(<<>>),
     findings |-> JList(<<>>),
     agentDevicesMeta |-> "null",
     agentKeysMeta |-> "null",
     findingsMeta |-> "null"]

\* The locals of fetchAccountDetails before any fetch has resolved
\* (lines 49, 74-75, 98-99, 122-123).
InitLocals ==
    [accountDetails |-> DNull,
     agentDevices |-> JList(<<>>),
     agentKeys |-> JList(<<>>),
     findings |-> JList(<<>>),
     agentDevicesMeta |-> "null",
     agentKeysMeta |-> "null",
     findingsMeta |-> "null"]

\* Lines 176-200: the record of the outer catch.
DefaultDetails ==
    [accountDetails |-> DNull,
     agentDevices |-> JList(<<>>),
     agentKeys |-> JList(<<>>),
     findings |-> JList(<<>>),
     agentDeviceCount |-> 0,
     agentKeyCount |-> 0,
     findingsCount |-> 0,
     criticalFindingsCount |-> 0,
     openFindingsCount |-> 0,
     onlineDevices |-> 0,
     sleepingDevices |-> 0,
     isolatedDevices |-> 0,
     excludedDevices |-> 0,
     agent_count_available |-> 0,
     agent_count_used |-> 0,
     license |-> "Unknown",
     user_count |-> 0,
     agentDevicesMeta |-> "null",
     agentKeysMeta |-> "null",
     findingsMeta |-> "null"]

\* Lines 145-200: the summary, or the defaults when computing it throws.
Summarize(loc) == IF ComputeThrows(loc) THEN DefaultDetails ELSE DetailsRecord(loc)


\* ------------------------------------------------- organizations GET: parts
\* a || b on a numeric slot.
JsOr(a, b) == IF a = Undef \/ a = NaN \/ a = 0 THEN b ELSE a

\* Lines 236-244: {...account, ...details, id, name, open_findings}.
MergeOrg(account, details) ==
    [id |-> account.account_id,
     name |-> account.name,
     open_findings |-> JsOr(account.open_findings, details.openFindingsCount)]
    @@ details @@ account

\* accountsWithDetails.reduce((sum, org) => sum + org[f], 0)
RECURSIVE SumField(_, _)
SumField(list, f) ==
    IF list = <<>> THEN 0
    ELSE JsAdd(SumField(SubSeq(list, 1, Len(list) - 1), f), list[Len(list)][f])

\* Property names every object literal inherits from Object.prototype: acc[k]
\* reads the inherited function for them, and an assignment to __proto__ with
\* a value that is no object is ignored.
InheritedKeys ==
    {"constructor", "toString", "toLocaleString", "valueOf", "hasOwnProperty",
     "isPrototypeOf", "propertyIsEnumerable"}

\* An entry of the histogram: a number, or the string that function + 1 and
\* string + 1 build (the function's source followed by n characters "1").
NumEntry(n) == [t |-> "number", n |-> n]
StrEntry(n) == [t |-> "string", n |-> n]

\* Lines 263-264: acc[org.license] = (acc[org.license] || 0) + 1
LicenseStep(acc, lic) ==
    LET new == IF lic \in DOMAIN acc
               THEN [acc[lic] EXCEPT !.n = @ + 1]
               ELSE IF lic \in InheritedKeys THEN StrEntry(1) ELSE NumEntry(1)
    IN IF lic = "__proto__" THEN acc
       ELSE [k \in DOMAIN acc \cup {lic} |-> IF k = lic THEN new ELSE acc[k]]

\* Lines 262-265: the reduce over the organizations, starting from {}.
RECURSIVE LicenseBreakdown(_)
LicenseBreakdown(list) ==
    IF list = <<>> THEN [k \in {} |-> NumEntry(0)]
    ELSE LicenseStep(LicenseBreakdown(SubSeq(list, 1, Len(list) - 1)),
                     list[Len(list)].license)

\* Lines 249-266.
Totals(list) ==
    [totalAgentDevices |-> SumField(list, "agentDeviceCount"),
     totalAgentKeys |-> SumField(list, "agentKeyCount"),
     totalFindings |-> SumField(list, "findingsCount"),
     totalCriticalFindings |-> SumField(list, "criticalFindingsCount"),
     totalOpenFindings |-> SumField(list, "openFindingsCount"),
     totalOnlineDevices |-> SumField(list, "onlineDevices"),
     totalSleepingDevices |-> SumField(list, "sleepingDevices"),
     totalIsolatedDevices |-> SumField(list, "isolatedDevices"),
     totalExcludedDevices |-> SumField(list, "excludedDevices"),
     totalAgentCountAvailable |-> SumField(list, "agent_count_available"),
     totalAgentCountUsed |-> SumField(list, "agent_count_used"),
     totalUserCount |-> SumField(list, "user_count"),
     licenseBreakdown |-> LicenseBreakdown(list)]

\* Error messages: the fixed text and the HTTP status and body it embeds.
Msg(text, code, detail) == [text |-> text, code |-> code, detail |-> detail]

\* AuthError without the response body.
AuthError_NoBody(status, text) == Msg("Authentication failed", status, "")

\* Line 33: `Authentication failed (${response.status}): ${responseText}`
AuthError(status, text) == Msg("Authentication failed", status, text)

\* AccountsError without the status in the message.
AccountsError_NoStatus(status) == Msg("Failed to fetch MSP accounts", 0, "")

\* Line 218: `Failed to fetch MSP accounts: ${accountsResponse.status}`
AccountsError(status) == Msg("Failed to fetch MSP accounts", status, "")

\* Lines 269-278 and 283-289: the two responses of the handler.
OkResponse(list, meta) ==
    [status |-> 200, organizations |-> list, meta |-> meta, totals |-> Totals(list),
     debug |-> [organizationCount |-> Len(list)] @@ Totals(list)]
ErrorResponse(msg) == [status |-> 500, error |-> msg, timestamp |-> "now"]
NoResponse == [status |-> 0]


\* ------------------------------------------------------------------- state
VARIABLES
    env,        \* process.env: BLUMIRA_CLIENT_ID and BLUMIRA_CLIENT_SECRET
    file,       \* .env.local: whether it exists, and its lines
    posts,      \* credentials POSTs awaiting the token endpoint
    last,       \* the last credentials call that answered, with its answer
    prev,       \* the last credentials POST or DELETE that answered
    pc,         \* organizations GET: where the handler is
    token,      \* organizations GET: the value getAccessToken returned
    accounts,   \* organizations GET: accountsData.data
    accountsMeta, \* organizations GET: accountsData.meta
    opc,        \* per account: the fetch its fetchAccountDetails awaits
    raw,        \* per account and call: what the upstream answered
    rawToken,   \* what the token endpoint answered
    rawAccounts, \* what the accounts-list endpoint answered
    loc,        \* per account: the locals of fetchAccountDetails
    orgs,       \* per account: the merged record of the map callback
    reqs,       \* the requests the handler has issued
    response,   \* what the handler answered
    finished,   \* the accounts in the order their map callbacks returned
    tokenPosts, \* organizations GET: the token POSTs this request has issued
    dpc,        \* dashboard GET: where the handler is
    dToken,     \* dashboard GET: the value getAccessToken returned
    dAccounts,  \* dashboard GET: let accounts
    dFindings,  \* dashboard GET: let findings
    dRaw,       \* dashboard GET: what each upstream endpoint answered
    dReqs,      \* dashboard GET: the requests the handler has issued
    dResponse,  \* dashboard GET: what the handler answered
    data,       \* Dashboard component: useState data
    loading,    \* Dashboard component: useState loading
    error,      \* Dashboard component: useState error
    credentialsError, \* Dashboard component: useState credentialsError
    refreshing, \* Dashboard component: useState refreshing
    calls,      \* Dashboard component: the fetchData calls, in the order issued
    settled     \* Dashboard component: the calls in the order they settled

credVars == <<env, file, posts, last, prev>>
orgVars == <<pc, token, accounts, accountsMeta, opc, raw, rawToken, rawAccounts,
             loc, orgs, reqs, response, finished, tokenPosts>>
dashVars == <<dpc, dToken, dAccounts, dFindings, dRaw, dReqs, dResponse>>
uiVars == <<data, loading, error, credentialsError, refreshing, calls, settled>>
vars == <<env, file, posts, last, prev,
          pc, token, accounts, accountsMeta, opc, raw, rawToken, rawAccounts,
          loc, orgs, reqs, response, finished, tokenPosts,
          dpc, dToken, dAccounts, dFindings, dRaw, dReqs, dResponse,
          data, loading, error, credentialsError, refreshing, calls, settled>>

\* A process.env entry: unset, or set to a string (a sequence of characters).
Unset == [set |-> FALSE, val |-> <<>>]
SetTo(v) == [set |-> TRUE, val |-> v]

\* Missing that takes an empty value for a present one.
Missing_OnlyUnset(e) == ~e.set

\* !value on a process.env entry.
Missing(e) == ~e.set \/ e.val = <<>>

Orgs == 1..MaxOrgs
NoRaw == [c \in {"details", "devices", "keys", "findings"} |-> NoResp]
NoOrg == [id |-> 0]

\* One request: the endpoint, the account it is for (0: none), the bearer token.
Req(url, org, tok) == [url |-> url, org |-> org, token |-> tok]

\* ------------------------------------------------- credentials endpoint
\* Text is a sequence of characters. "ID=" and "SECRET=" stand for the
\* prefixes BLUMIRA_CLIENT_ID= and BLUMIRA_CLIENT_SECRET=, "\n" for the
\* newline.
NoFile == [exists |-> FALSE, content |-> <<>>]
FileOf(text) == [exists |-> TRUE, content |-> text]

\* text.split("\n")
RECURSIVE Split(_)
Split(text) ==
    IF \A i \in DOMAIN text : text[i] # "\n"
    THEN <<text>>
    ELSE LET i == CHOOSE j \in DOMAIN text :
                      text[j] = "\n" /\ \A k \in 1..(j - 1) : text[k] # "\n"
         IN <<SubSeq(text, 1, i - 1)>> \o Split(SubSeq(text, i + 1, Len(text)))

\* lines.join("\n")
RECURSIVE Join(_)
Join(lines) ==
    IF lines = <<>> THEN <<>>
    ELSE IF Len(lines) = 1 THEN lines[1]
    ELSE lines[1] \o <<"\n">> \o Join(Tail(lines))

\* line.startsWith(prefix), the prefix being one character of the model.
StartsWith(line, prefix) == Len(line) >= 1 /\ line[1] = prefix

\* Lines 73-75 and 104-106: the lines that are no credential lines.
IsOtherLine(line) == ~StartsWith(line, "ID=") /\ ~StartsWith(line, "SECRET=")
WithoutCredentials(text) == SelectSeq(Split(text), IsOtherLine)

\* The text a POST would write if it appended without removing.
PostContent_AppendsOnly(f, clientId, clientSecret) ==
    Join(Split(IF f.exists THEN f.content ELSE <<>>)
         \o <<<<"ID=">> \o clientId, <<"SECRET=">> \o clientSecret>>)

\* Lines 66-82: the text POST writes.
PostContent(f, clientId, clientSecret) ==
    Join(WithoutCredentials(IF f.exists THEN f.content ELSE <<>>)
         \o <<<<"ID=">> \o clientId, <<"SECRET=">> \o clientSecret>>)

\* Lines 103-107: the text DELETE writes.
DeleteContent(f) == Join(WithoutCredentials(f.content))

\* StatusBody with clientSecretLength read from the client id.
StatusBody_SecretLengthFromId(e) ==
    [hasCredentials |-> ~Missing(e.id) /\ ~Missing(e.secret),
     hasClientId |-> ~Missing(e.id),
     hasClientSecret |-> ~Missing(e.secret),
     clientIdLength |-> IF e.id.set THEN Len(e.id.val) ELSE 0,
     clientSecretLength |-> IF e.id.set THEN Len(e.id.val) ELSE 0]

\* Lines 11-20: the body of the status GET.
StatusBody(e) ==
    [hasCredentials |-> ~Missing(e.id) /\ ~Missing(e.secret),
     hasClientId |-> ~Missing(e.id),
     hasClientSecret |-> ~Missing(e.secret),
     clientIdLength |-> IF e.id.set THEN Len(e.id.val) ELSE 0,
     clientSecretLength |-> IF e.secret.set THEN Len(e.secret.val) ELSE 0]

\* A call that answered: the operation, the status code, for a POST the
\* submitted pair and whether the token endpoint accepted it, for a GET the
\* body, and the last POST or DELETE that answered 200 before it; for a POST
\* also whether its body parsed, what the token endpoint answered to it and
\* how many other POSTs were awaiting the token endpoint when it answered.
Call(op, code, id, secret, accepted, body, prior) ==
    [op |-> op, code |-> code, id |-> id, secret |-> secret,
     accepted |-> accepted, body |-> body, prior |-> prior,
     parsed |-> TRUE, auth |-> NoResp, others |-> 0]
NoCall == Call("none", 0, <<>>, <<>>, FALSE, StatusBody([id |-> Unset, secret |-> Unset]), "none")
Answer(op, code, id, secret, accepted) ==
    Call(op, code, id, secret, accepted, NoCall.body,
         IF prev.code = 200 THEN prev.op ELSE prev.prior)

\* Accepts that takes any parsed body for a token.
Accepts_AnyParsedBody(r) == Reads(r)

\* Whether the token endpoint accepted the pair (lines 50-64).
Accepts(r) == Reads(r) /\ StrField(AsPayload(r.body), "access_token") \notin {UndefStr, ""}

\* Lines 9-25: the status GET.
GetStatus ==
    /\ last' = Call("GET", 200, <<>>, <<>>, FALSE, StatusBody(env), prev.prior)
    /\ UNCHANGED <<env, file, posts, prev>>
    /\ UNCHANGED orgVars
    /\ UNCHANGED dashVars
    /\ UNCHANGED uiVars

\* Lines 27-48: a POST arrives; a body that does not parse answers 500, a
\* missing or empty id or secret answers 400, else the pair is sent to the
\* token endpoint.
PostArrives(parses, id, secret) ==
    /\ [id |-> id.val, secret |-> secret.val] \notin posts
    /\ IF ~parses
       THEN /\ last' = [Answer("POST", 500, id.val, secret.val, FALSE) EXCEPT !.parsed = FALSE]
            /\ prev' = last'
            /\ posts' = posts
       ELSE IF Missing(id) \/ Missing(secret)
       THEN /\ last' = Answer("POST", 400, id.val, secret.val, FALSE)
            /\ prev' = last'
            /\ posts' = posts
       ELSE /\ posts' = posts \cup {[id |-> id.val, secret |-> secret.val]}
            /\ UNCHANGED <<last, prev>>
    /\ UNCHANGED <<env, file>>
    /\ UNCHANGED orgVars
    /\ UNCHANGED dashVars
    /\ UNCHANGED uiVars

\* A POST that leaves a secret already installed in place.
PostSettles_KeepsInstalledSecret(p, r, fs) ==
    /\ p \in posts
    /\ posts' = posts \ {p}
    /\ IF r.k = "reject" \/ r.k = "badjson" \/ (r.k = "json" /\ ~Reads(r))
       THEN /\ last' = [Answer("POST", 500, p.id, p.secret, FALSE)
                          EXCEPT !.auth = r, !.others = Cardinality(posts \ {p})]
            /\ UNCHANGED <<env, file>>
       ELSE IF ~Accepts(r)
       THEN /\ last' = [Answer("POST", 401, p.id, p.secret, FALSE)
                          EXCEPT !.auth = r, !.others = Cardinality(posts \ {p})]
            /\ UNCHANGED <<env, file>>
       ELSE IF (fs = "read" /\ file.exists) \/ fs = "write"
       THEN /\ last' = [Answer("POST", 500, p.id, p.secret, TRUE)
                          EXCEPT !.auth = r, !.others = Cardinality(posts \ {p})]
            /\ UNCHANGED <<env, file>>
       ELSE /\ file' = FileOf(PostContent(file, p.id, p.secret))
            /\ env' = [id |-> SetTo(p.id),
                       secret |-> IF env.secret.set THEN env.secret ELSE SetTo(p.secret)]
            /\ last' = [Answer("POST", 200, p.id, p.secret, TRUE)
                          EXCEPT !.auth = r, !.others = Cardinality(posts \ {p})]
    /\ prev' = last'
    /\ UNCHANGED orgVars
    /\ UNCHANGED dashVars
    /\ UNCHANGED uiVars

\* Lines 50-96: the token endpoint settles for the POST p. fs says which file
\* call throws: none ("ok"), readFileSync ("read") or writeFileSync ("write").
PostSettles(p, r, fs) ==
    /\ p \in posts
    /\ posts' = posts \ {p}
    /\ IF r.k = "reject" \/ r.k = "badjson" \/ (r.k = "json" /\ ~Reads(r))
       THEN /\ last' = [Answer("POST", 500, p.id, p.secret, FALSE)
                          EXCEPT !.auth = r, !.others = Cardinality(posts \ {p})]
            /\ UNCHANGED <<env, file>>
       ELSE IF ~Accepts(r)
       THEN /\ last' = [Answer("POST", 401, p.id, p.secret, FALSE)
                          EXCEPT !.auth = r, !.others = Cardinality(posts \ {p})]
            /\ UNCHANGED <<env, file>>
       ELSE IF (fs = "read" /\ file.exists) \/ fs = "write"
       THEN /\ last' = [Answer("POST", 500, p.id, p.secret, TRUE)
                          EXCEPT !.auth = r, !.others = Cardinality(posts \ {p})]
            /\ UNCHANGED <<env, file>>
       ELSE /\ file' = FileOf(PostContent(file, p.id, p.secret))
            /\ env' = [id |-> SetTo(p.id), secret |-> SetTo(p.secret)]
            /\ last' = [Answer("POST", 200, p.id, p.secret, TRUE)
                          EXCEPT !.auth = r, !.others = Cardinality(posts \ {p})]
    /\ prev' = last'
    /\ UNCHANGED orgVars
    /\ UNCHANGED dashVars
    /\ UNCHANGED uiVars

\* A DELETE that clears the environment before it rewrites the file.
Delete_ClearsEnvFirst(fs) ==
    /\ IF file.exists /\ fs # "ok"
       THEN /\ last' = Answer("DELETE", 500, <<>>, <<>>, FALSE)
            /\ env' = [id |-> Unset, secret |-> Unset]
            /\ UNCHANGED file
       ELSE /\ file' = IF file.exists THEN FileOf(DeleteContent(file)) ELSE file
            /\ env' = [id |-> Unset, secret |-> Unset]
            /\ last' = Answer("DELETE", 200, <<>>, <<>>, FALSE)
    /\ prev' = last'
    /\ UNCHANGED posts
    /\ UNCHANGED orgVars
    /\ UNCHANGED dashVars
    /\ UNCHANGED uiVars

\* Lines 99-123: DELETE.
Delete(fs) ==
    /\ IF file.exists /\ fs # "ok"
       THEN /\ last' = Answer("DELETE", 500, <<>>, <<>>, FALSE)
            /\ UNCHANGED <<env, file>>
       ELSE /\ file' = IF file.exists THEN FileOf(DeleteContent(file)) ELSE file
            /\ env' = [id |-> Unset, secret |-> Unset]
            /\ last' = Answer("DELETE", 200, <<>>, <<>>, FALSE)
    /\ prev' = last'
    /\ UNCHANGED posts
    /\ UNCHANGED orgVars
    /\ UNCHANGED dashVars
    /\ UNCHANGED uiVars

\* ------------------------------------------------ organizations GET: steps
\* Lines 203-207 and 6-29: the handler starts; getAccessToken throws on a
\* missing credential, else posts to the token endpoint.
Start ==
    /\ pc = "idle"
    /\ IF Missing(env.id) \/ Missing(env.secret)
       THEN /\ response' = ErrorResponse(Msg("BLUMIRA_CLIENT_ID and BLUMIRA_CLIENT_SECRET environment variables are required", 0, ""))
            /\ pc' = "done"
            /\ UNCHANGED <<reqs, tokenPosts>>
       ELSE /\ reqs' = reqs \cup {Req("token", 0, UndefStr)}
            /\ tokenPosts' = tokenPosts + 1
            /\ pc' = "token"
            /\ response' = response
    /\ UNCHANGED <<token, accounts, accountsMeta, opc, raw, rawToken, rawAccounts, loc, orgs>>
    /\ UNCHANGED finished
    /\ UNCHANGED credVars
    /\ UNCHANGED dashVars
    /\ UNCHANGED uiVars

\* A handler whose catch misses a rejected token fetch: the request ends
\* without a response.
TokenSettles_Uncaught(r) ==
    /\ pc = "token"
    /\ rawToken' = r
    /\ IF r.k = "reject"
       THEN /\ pc' = "done"
            /\ UNCHANGED <<token, reqs, response>>
       ELSE IF r.k = "http"
       THEN /\ response' = ErrorResponse(AuthError(r.status, ResponseText(r)))
            /\ pc' = "done"
            /\ UNCHANGED <<token, reqs>>
       ELSE IF ~Reads(r)
       THEN /\ response' = ErrorResponse(Msg(IF r.k = "badjson" THEN "Unexpected token" ELSE "Cannot read properties of null", 0, ""))
            /\ pc' = "done"
            /\ UNCHANGED <<token, reqs>>
       ELSE /\ token' = StrField(AsPayload(r.body), "access_token")
            /\ reqs' = reqs \cup {Req("accounts", 0, StrField(AsPayload(r.body), "access_token"))}
            /\ pc' = "accounts"
            /\ response' = response
    /\ UNCHANGED <<accounts, accountsMeta, opc, raw, rawAccounts, loc, orgs>>
    /\ UNCHANGED <<finished, tokenPosts>>
    /\ UNCHANGED credVars
    /\ UNCHANGED dashVars
    /\ UNCHANGED uiVars

\* Lines 31-41 and 207-215: the token fetch settles; data.access_token is
\* returned as it is, and the accounts fetch is issued with it.
TokenSettles(r) ==
    /\ pc = "token"
    /\ rawToken' = r
    /\ IF r.k = "reject"
       THEN /\ response' = ErrorResponse(Msg("fetch failed", 0, ""))
            /\ pc' = "done"
            /\ UNCHANGED <<token, reqs>>
       ELSE IF r.k = "http"
       THEN /\ response' = ErrorResponse(AuthError(r.status, ResponseText(r)))
            /\ pc' = "done"
            /\ UNCHANGED <<token, reqs>>
       ELSE IF ~Reads(r)
       THEN /\ response' = ErrorResponse(Msg(IF r.k = "badjson" THEN "Unexpected token" ELSE "Cannot read properties of null", 0, ""))
            /\ pc' = "done"
            /\ UNCHANGED <<token, reqs>>
       ELSE /\ token' = StrField(AsPayload(r.body), "access_token")
            /\ reqs' = reqs \cup {Req("accounts", 0, StrField(AsPayload(r.body), "access_token"))}
            /\ pc' = "accounts"
            /\ response' = response
    /\ UNCHANGED <<accounts, accountsMeta, opc, raw, rawAccounts, loc, orgs>>
    /\ UNCHANGED <<finished, tokenPosts>>
    /\ UNCHANGED credVars
    /\ UNCHANGED dashVars
    /\ UNCHANGED uiVars

\* Lines 217-235 and 44-56: the accounts fetch settles; on a list, every map
\* callback runs up to its first await, the details fetch of its account.
AccountsSettles(r) ==
    /\ pc = "accounts"
    /\ rawAccounts' = r
    /\ IF r.k = "reject"
       THEN /\ response' = ErrorResponse(Msg("fetch failed", 0, ""))
            /\ pc' = "done"
            /\ UNCHANGED <<accounts, accountsMeta, opc, reqs>>
       ELSE IF r.k = "http"
       THEN /\ response' = ErrorResponse(AccountsError(r.status))
            /\ pc' = "done"
            /\ UNCHANGED <<accounts, accountsMeta, opc, reqs>>
       ELSE IF ~Reads(r)
       THEN /\ response' = ErrorResponse(Msg(IF r.k = "badjson" THEN "Unexpected token" ELSE "Cannot read properties of null", 0, ""))
            /\ pc' = "done"
            /\ UNCHANGED <<accounts, accountsMeta, opc, reqs>>
       ELSE IF ~Wrapped(r.body)
       THEN /\ response' = ErrorResponse(Msg("Invalid response format from MSP accounts endpoint", 0, ""))
            /\ pc' = "done"
            /\ UNCHANGED <<accounts, accountsMeta, opc, reqs>>
       ELSE IF r.body.data.t # "list"
       THEN /\ response' = ErrorResponse(Msg("accounts.map is not a function", 0, ""))
            /\ pc' = "done"
            /\ UNCHANGED <<accounts, accountsMeta, opc, reqs>>
       ELSE /\ accounts' = r.body.data.items
            /\ accountsMeta' = r.body.meta
            /\ opc' = [i \in Orgs |-> IF i <= Len(r.body.data.items) THEN "details" ELSE "idle"]
            /\ reqs' = reqs \cup {Req("details", r.body.data.items[i].account_id, token) :
                                    i \in 1..Len(r.body.data.items)}
            /\ pc' = "fanout"
            /\ response' = response
    /\ UNCHANGED <<token, raw, rawToken, loc, orgs>>
    /\ UNCHANGED <<finished, tokenPosts>>
    /\ UNCHANGED credVars
    /\ UNCHANGED dashVars
    /\ UNCHANGED uiVars

\* Lines 57-82: the details fetch of account i settles, the devices fetch is
\* issued.
DetailsSettles(i, r) ==
    /\ pc = "fanout" /\ opc[i] = "details"
    /\ raw' = [raw EXCEPT ![i].details = r]
    /\ loc' = [loc EXCEPT ![i].accountDetails = AccountDetailsOf(r, @)]
    /\ reqs' = reqs \cup {Req("devices", accounts[i].account_id, token)}
    /\ opc' = [opc EXCEPT ![i] = "devices"]
    /\ UNCHANGED <<pc, token, accounts, accountsMeta, rawToken, rawAccounts, orgs, response>>
    /\ UNCHANGED <<finished, tokenPosts>>
    /\ UNCHANGED credVars
    /\ UNCHANGED dashVars
    /\ UNCHANGED uiVars

\* Lines 83-106: the devices fetch settles, the keys fetch is issued.
DevicesSettles(i, r) ==
    /\ pc = "fanout" /\ opc[i] = "devices"
    /\ raw' = [raw EXCEPT ![i].devices = r]
    /\ loc' = [loc EXCEPT ![i].agentDevices = ListOf(r, @), ![i].agentDevicesMeta = MetaOf(r, @)]
    /\ reqs' = reqs \cup {Req("keys", accounts[i].account_id, token)}
    /\ opc' = [opc EXCEPT ![i] = "keys"]
    /\ UNCHANGED <<pc, token, accounts, accountsMeta, rawToken, rawAccounts, orgs, response>>
    /\ UNCHANGED <<finished, tokenPosts>>
    /\ UNCHANGED credVars
    /\ UNCHANGED dashVars
    /\ UNCHANGED uiVars

\* Lines 107-130: the keys fetch settles, the findings fetch is issued.
KeysSettles(i, r) ==
    /\ pc = "fanout" /\ opc[i] = "keys"
    /\ raw' = [raw EXCEPT ![i].keys = r]
    /\ loc' = [loc EXCEPT ![i].agentKeys = ListOf(r, @), ![i].agentKeysMeta = MetaOf(r, @)]
    /\ reqs' = reqs \cup {Req("findings", accounts[i].account_id, token)}
    /\ opc' = [opc EXCEPT ![i] = "findings"]
    /\ UNCHANGED <<pc, token, accounts, accountsMeta, rawToken, rawAccounts, orgs, response>>
    /\ UNCHANGED <<finished, tokenPosts>>
    /\ UNCHANGED credVars
    /\ UNCHANGED dashVars
    /\ UNCHANGED uiVars

\* Lines 131-200 and 235-244: the findings fetch settles, the summary is
\* computed and the map callback merges it into the account.
FindingsSettles(i, r) ==
    /\ pc = "fanout" /\ opc[i] = "findings"
    /\ raw' = [raw EXCEPT ![i].findings = r]
    /\ loc' = [loc EXCEPT ![i].findings = ListOf(r, @), ![i].findingsMeta = MetaOf(r, @)]
    /\ orgs' = [orgs EXCEPT ![i] = MergeOrg(accounts[i], Summarize(loc'[i]))]
    /\ opc' = [opc EXCEPT ![i] = "done"]
    /\ finished' = Append(finished, i)
    /\ UNCHANGED tokenPosts
    /\ UNCHANGED <<pc, token, accounts, accountsMeta, rawToken, rawAccounts, reqs, response>>
    /\ UNCHANGED credVars
    /\ UNCHANGED dashVars
    /\ UNCHANGED uiVars

\* Respond with a failed findings fetch rejecting the whole Promise.all.
Respond_RejectsOnFailedFindings ==
    /\ pc = "fanout"
    /\ \A i \in 1..Len(accounts) : opc[i] = "done"
    /\ response' = IF \E i \in 1..Len(accounts) : raw[i].findings.k # "json"
                   THEN ErrorResponse(Msg("Failed to fetch findings", 0, ""))
                   ELSE OkResponse([i \in 1..Len(accounts) |-> orgs[i]], accountsMeta)
    /\ pc' = "done"
    /\ UNCHANGED <<token, accounts, accountsMeta, opc, raw, rawToken, rawAccounts, loc, orgs, reqs>>
    /\ UNCHANGED <<finished, tokenPosts>>
    /\ UNCHANGED credVars
    /\ UNCHANGED dashVars
    /\ UNCHANGED uiVars

\* Respond with the records in the order the callbacks returned.
Respond_InCompletionOrder ==
    /\ pc = "fanout"
    /\ \A i \in 1..Len(accounts) : opc[i] = "done"
    /\ response' = OkResponse([k \in 1..Len(accounts) |-> orgs[finished[k]]], accountsMeta)
    /\ pc' = "done"
    /\ UNCHANGED <<token, accounts, accountsMeta, opc, raw, rawToken, rawAccounts, loc, orgs, reqs>>
    /\ UNCHANGED <<finished, tokenPosts>>
    /\ UNCHANGED credVars
    /\ UNCHANGED dashVars
    /\ UNCHANGED uiVars

\* Respond as soon as one callback has returned, over the records returned so
\* far.
Respond_WhenAnyDone ==
    /\ pc = "fanout"
    /\ \E i \in 1..Len(accounts) : opc[i] = "done"
    /\ response' = OkResponse([k \in 1..Len(finished) |-> orgs[finished[k]]], accountsMeta)
    /\ pc' = "done"
    /\ UNCHANGED <<token, accounts, accountsMeta, opc, raw, rawToken, rawAccounts, loc, orgs, reqs>>
    /\ UNCHANGED <<finished, tokenPosts>>
    /\ UNCHANGED credVars
    /\ UNCHANGED dashVars
    /\ UNCHANGED uiVars

\* Lines 233, 246-278: Promise.all resolves once every callback has returned;
\* the totals are reduced and the 200 response is sent.
Respond ==
    /\ pc = "fanout"
    /\ \A i \in 1..Len(accounts) : opc[i] = "done"
    /\ response' = OkResponse([i \in 1..Len(accounts) |-> orgs[i]], accountsMeta)
    /\ pc' = "done"
    /\ UNCHANGED <<token, accounts, accountsMeta, opc, raw, rawToken, rawAccounts, loc, orgs, reqs>>
    /\ UNCHANGED <<finished, tokenPosts>>
    /\ UNCHANGED credVars
    /\ UNCHANGED dashVars
    /\ UNCHANGED uiVars

\* A handler that kept the last token and skipped the token POST.
NewRequest_ReusesToken ==
    /\ pc = "done"
    /\ IF token # UndefStr
       THEN /\ pc' = "accounts"
            /\ reqs' = {Req("accounts", 0, token)}
       ELSE /\ pc' = "idle"
            /\ reqs' = {}
    /\ token' = token
    /\ accounts' = <<>>
    /\ accountsMeta' = UndefStr
    /\ opc' = [i \in Orgs |-> "idle"]
    /\ raw' = [i \in Orgs |-> NoRaw]
    /\ rawToken' = NoResp
    /\ rawAccounts' = NoResp
    /\ loc' = [i \in Orgs |-> InitLocals]
    /\ orgs' = [i \in Orgs |-> NoOrg]
    /\ response' = NoResponse
    /\ finished' = <<>>
    /\ tokenPosts' = 0
    /\ UNCHANGED credVars
    /\ UNCHANGED dashVars
    /\ UNCHANGED uiVars

\* Line 203: the next GET of the organizations endpoint arrives after the
\* last one was answered; every local of the handler is fresh.
NewRequest ==
    /\ pc = "done"
    /\ pc' = "idle"
    /\ token' = UndefStr
    /\ accounts' = <<>>
    /\ accountsMeta' = UndefStr
    /\ opc' = [i \in Orgs |-> "idle"]
    /\ raw' = [i \in Orgs |-> NoRaw]
    /\ rawToken' = NoResp
    /\ rawAccounts' = NoResp
    /\ loc' = [i \in Orgs |-> InitLocals]
    /\ orgs' = [i \in Orgs |-> NoOrg]
    /\ reqs' = {}
    /\ response' = NoResponse
    /\ finished' = <<>>
    /\ tokenPosts' = 0
    /\ UNCHANGED credVars
    /\ UNCHANGED dashVars
    /\ UNCHANGED uiVars

\* ------------------------------------------------------- dashboard GET
\* The fixed messages of the dashboard route's errors.
MissingCredentials ==
    Msg("BLUMIRA_CLIENT_ID and BLUMIRA_CLIENT_SECRET environment variables are required", 0, "")
\* Line 163: `Authentication failed (${response.status}): ${responseText ||
\* response.statusText}`
DashAuthError(status, text) ==
    Msg("Authentication failed", status, IF text = "" THEN "statusText" ELSE text)

\* Lines 215 and 253: data.data || [] of a parsed body; a body without a data
\* field gives [].
DataOrEmpty(body) ==
    IF body.shape = "envelope" /\ Truthy(body.data) THEN body.data ELSE JList(<<>>)
\* Lines 187-220 and 222-258: whether fetchMspAccounts / fetchAllFindings
\* returns (else it throws: rejection, non-2xx, unparseable body, data.data
\* read on null).
Returns(r) == r.k = "json" /\ r.body.shape # "null"

\* Lines 286-294 and 307-313: the two responses of the dashboard handler.
DashOk(accs, finds) ==
    [status |-> 200, accounts |-> accs, findings |-> finds,
     debug |-> [accountsCount |-> LengthOf(accs), findingsCount |-> LengthOf(finds)]]
DashError(msg, e) ==
    [status |-> 500, error |-> msg,
     details |-> [message |-> msg, hasClientId |-> ~Missing(e.id),
                  hasClientSecret |-> ~Missing(e.secret)]]

NoDashRaw == [c \in {"token", "accounts", "findings"} |-> NoResp]

\* Lines 260-266 and 130-155: the handler starts; getAccessToken throws on a
\* missing credential, else posts to the token endpoint.
DashStart ==
    /\ dpc = "idle"
    /\ IF Missing(env.id) \/ Missing(env.secret)
       THEN /\ dResponse' = DashError(MissingCredentials, env)
            /\ dpc' = "done"
            /\ dReqs' = dReqs
       ELSE /\ dReqs' = dReqs \cup {Req("token", 0, UndefStr)}
            /\ dpc' = "token"
            /\ dResponse' = dResponse
    /\ UNCHANGED <<dToken, dAccounts, dFindings, dRaw>>
    /\ UNCHANGED credVars
    /\ UNCHANGED orgVars
    /\ UNCHANGED uiVars

\* Lines 157-184 and 266-273: the token fetch settles; a non-2xx status, an
\* unparseable body and a body without access_token throw to the handler's
\* catch, else the accounts fetch is issued with the token.
DashTokenSettles(r) ==
    /\ dpc = "token"
    /\ dRaw' = [dRaw EXCEPT !.token = r]
    /\ IF r.k = "reject"
       THEN /\ dResponse' = DashError(Msg("fetch failed", 0, ""), env)
            /\ dpc' = "done"
            /\ UNCHANGED <<dToken, dReqs>>
       ELSE IF r.k = "http"
       THEN /\ dResponse' = DashError(DashAuthError(r.status, ResponseText(r)), env)
            /\ dpc' = "done"
            /\ UNCHANGED <<dToken, dReqs>>
       ELSE IF r.k = "badjson"
       THEN /\ dResponse' = DashError(Msg("Invalid JSON response from authentication endpoint", 0, ""), env)
            /\ dpc' = "done"
            /\ UNCHANGED <<dToken, dReqs>>
       ELSE IF r.body.shape = "null"
       THEN /\ dResponse' = DashError(Msg("Cannot read properties of null", 0, ""), env)
            /\ dpc' = "done"
            /\ UNCHANGED <<dToken, dReqs>>
       ELSE IF StrField(AsPayload(r.body), "access_token") \in {UndefStr, ""}
       THEN /\ dResponse' = DashError(Msg("No access token received from authentication endpoint", 0, ""), env)
            /\ dpc' = "done"
            /\ UNCHANGED <<dToken, dReqs>>
       ELSE /\ dToken' = StrField(AsPayload(r.body), "access_token")
            /\ dReqs' = dReqs \cup {Req("accounts", 0, StrField(AsPayload(r.body), "access_token"))}
            /\ dpc' = "accounts"
            /\ dResponse' = dResponse
    /\ UNCHANGED <<dAccounts, dFindings>>
    /\ UNCHANGED credVars
    /\ UNCHANGED orgVars
    /\ UNCHANGED uiVars

\* Lines 272-279 and 187-226: fetchMspAccounts settles; what it throws is
\* caught and accounts stays [], then the findings fetch is issued.
DashAccountsSettles(r) ==
    /\ dpc = "accounts"
    /\ dRaw' = [dRaw EXCEPT !.accounts = r]
    /\ dAccounts' = IF Returns(r) THEN DataOrEmpty(r.body) ELSE dAccounts
    /\ dReqs' = dReqs \cup {Req("findings", 0, dToken)}
    /\ dpc' = "findings"
    /\ UNCHANGED <<dToken, dFindings, dResponse>>
    /\ UNCHANGED credVars
    /\ UNCHANGED orgVars
    /\ UNCHANGED uiVars

\* Lines 278-294 and 233-258: fetchAllFindings settles; what it throws is
\* caught and findings stays [], then the 200 response is sent.
DashFindingsSettles(r) ==
    /\ dpc = "findings"
    /\ dRaw' = [dRaw EXCEPT !.findings = r]
    /\ dFindings' = IF Returns(r) THEN DataOrEmpty(r.body) ELSE dFindings
    /\ dResponse' = DashOk(dAccounts, dFindings')
    /\ dpc' = "done"
    /\ UNCHANGED <<dToken, dAccounts, dReqs>>
    /\ UNCHANGED credVars
    /\ UNCHANGED orgVars
    /\ UNCHANGED uiVars

\* ------------------------------------------------- Dashboard component
\* Lines 52 and 55: useState(null) of data and of error.
NoData == 0
NoError == [k |-> "null", words |-> <<>>]
Text(words) == [k |-> "text", words |-> words]

\* String.prototype.includes over a text kept as its words: the needle
\* occurs at some position, contiguously.
Includes(words, needle) ==
    \E i \in 0..(Len(words) - Len(needle)) :
        \A j \in 1..Len(needle) : words[i + j] = needle[j]

\* Lines 74-78: result.error?.includes(...) of the three texts; no error
\* field, no match.
IsCredentialsError(result) ==
    /\ result.error # NoError
    /\ \/ Includes(result.error.words, <<"BLUMIRA_CLIENT_ID">>)
       \/ Includes(result.error.words, <<"BLUMIRA_CLIENT_SECRET">>)
       \/ Includes(result.error.words, <<"Authentication", "failed">>)

\* What one fetch of /api/blumira/dashboard comes to (lines 67-70): a 2xx
\* body, a non-2xx body with or without an error text, a rejected fetch, a
\* body that is not JSON.
Pending == [k |-> "pending"]
OkResult == [k |-> "ok"]
FailResult(e) == [k |-> "fail", error |-> e]
RejectedFetch == [k |-> "reject"]
NotJson == [k |-> "badjson"]

\* Lines 82 and 94: the message fetchData stores when the call fails.
\* The messages of the rejection and of the syntax error are the browser's.
ErrorMessage(o) ==
    IF o.k = "fail"
    THEN IF o.error = NoError \/ o.error.words = <<>>
         THEN Text(<<"Failed", "to", "fetch", "data">>)
         ELSE o.error
    ELSE IF o.k = "reject" THEN Text(<<"fetch", "failed">>)
    ELSE Text(<<"Unexpected", "token">>)

\* Lines 173-222: what the component renders.
View ==
    IF loading THEN "skeleton"
    ELSE IF credentialsError THEN "credentials"
    ELSE IF error # NoError THEN "error"
    ELSE "main"

\* Lines 52-61: the state of the component when it is constructed.
InitUi ==
    /\ data = NoData
    /\ loading = TRUE
    /\ error = NoError
    /\ credentialsError = FALSE
    /\ refreshing = FALSE
    /\ calls = <<>>
    /\ settled = <<>>

\* Lines 101-103: the effect of the first render calls fetchData, which
\* clears error and credentialsError and issues the fetch (lines 65-67).
Mount ==
    /\ calls = <<>>
    /\ error' = NoError
    /\ credentialsError' = FALSE
    /\ calls' = Append(calls, Pending)
    /\ UNCHANGED <<data, loading, refreshing, settled>>
    /\ UNCHANGED credVars
    /\ UNCHANGED orgVars
    /\ UNCHANGED dashVars

\* Lines 105-108: Retry in the error view (line 200), Refresh in the main
\* view unless refreshing (line 363).
handleRefresh ==
    /\ Len(calls) \in 1..(MaxCalls - 1)
    /\ View = "error" \/ (View = "main" /\ ~refreshing)
    /\ refreshing' = TRUE
    /\ error' = NoError
    /\ credentialsError' = FALSE
    /\ calls' = Append(calls, Pending)
    /\ UNCHANGED <<data, loading, settled>>
    /\ UNCHANGED credVars
    /\ UNCHANGED orgVars
    /\ UNCHANGED dashVars

\* Lines 110-114: the callback of CredentialsSetup, which the credentials
\* view, the error view and the main view render (lines 187, 205, 243, 354).
handleCredentialsUpdated ==
    /\ Len(calls) \in 1..(MaxCalls - 1)
    /\ View # "skeleton"
    /\ loading' = TRUE
    /\ error' = NoError
    /\ credentialsError' = FALSE
    /\ calls' = Append(calls, Pending)
    /\ UNCHANGED <<data, refreshing, settled>>
    /\ UNCHANGED credVars
    /\ UNCHANGED orgVars
    /\ UNCHANGED dashVars

\* Lines 67-98: the fetch of call c comes to o; the rest of fetchData runs.
\* The data a successful call stores is named by the call.
FetchSettles(c, o) ==
    /\ c \in 1..Len(calls) /\ calls[c] = Pending
    /\ calls' = [calls EXCEPT ![c] = o]
    /\ settled' = Append(settled, c)
    /\ IF o.k = "ok"
       THEN /\ data' = c
            /\ UNCHANGED <<error, credentialsError>>
       ELSE /\ credentialsError' = IF o.k = "fail" /\ IsCredentialsError(o) THEN TRUE ELSE credentialsError
            /\ error' = ErrorMessage(o)
            /\ data' = data
    /\ loading' = FALSE
    /\ refreshing' = FALSE
    /\ UNCHANGED credVars
    /\ UNCHANGED orgVars
    /\ UNCHANGED dashVars

\* ------------------------------------------------------ upstream input sets
SeqsUpTo(S, n) == UNION {[1..k -> S] : k \in 0..n}

Devices == [is_excluded : BOOLEAN, is_isolated : BOOLEAN, is_sleeping : BOOLEAN, alive : BOOLEAN]
Findings == [priority : {1, 2}, status_name : {"Open", "open"}]
AgentKeys == {[key_id |-> "k1"]}

\* The accounts-list entries; open_findings is absent, 0 or positive, and the
\* entry carries a license and a user_count of its own.
Account(i) ==
    [account_id |-> i, name |-> i,
     open_findings |-> IF i % 3 = 1 THEN Undef ELSE IF i % 3 = 2 THEN 0 ELSE 5,
     license |-> "LISTED", user_count |-> 7]
AccountList(n) == [i \in 1..n |-> Account(i)]

TokenBody(tok) == Bare([t |-> "object", access_token |-> tok])
NoTokenBody == Bare([t |-> "object"])

\* Ways a list fetch ends without a usable list: rejection, non-2xx,
\* unparseable body, JSON null, an envelope without data, a status that is
\* not "OK".
ListFailures ==
    {Rejected, Http(500), BadJson, Json(NullBody),
     Json(Envelope("OK", JNull)), Json(Envelope("ERROR", JList(<<>>)))}
\* A payload that lacks the expected shape: data is an object, not an array.
Malformed == Json(Envelope("OK", JObject))

\* A 2xx body that is the device array itself, without the wrapper.
BareList == Json(Bare(JList(<<[is_excluded |-> FALSE, is_isolated |-> FALSE,
                              is_sleeping |-> FALSE, alive |-> TRUE]>>)))

DetailPayloads ==
    {DObj("FREE", 5, 2, 3), [t |-> "object", license |-> "Free", agent_count_available |-> 1, agent_count_used |-> 0],
     DObj("constructor", 2, 2, 1), [t |-> "object", license |-> "", agent_count_used |-> 1, user_count |-> 2]}

\* The inputs of one aggregation in depth: every failure kind and every
\* payload within the bounds.
RichInputs ==
    [token |-> {Json(TokenBody("tok1"))},
     accounts |-> {Json(Envelope("OK", JList(AccountList(1))))},
     details |-> {Rejected, Http(404), BadJson, Json(NullBody), Json(Envelope("OK", DNull))}
                 \cup {Json(Envelope("OK", d)) : d \in DetailPayloads}
                 \cup {Json(Bare(DObj("FREE", 5, 2, 3)))},
     devices |-> ListFailures \cup {Malformed, BareList}
                 \cup {Json(Envelope("OK", JList(l))) : l \in SeqsUpTo(Devices, MaxDevices)},
     keys |-> {Http(500), Malformed}
              \cup {Json(Envelope("OK", JList(l))) : l \in SeqsUpTo(AgentKeys, MaxKeys)},
     findings |-> {Rejected, Http(500), Malformed}
                  \cup {Json(Envelope("OK", JList(l))) : l \in SeqsUpTo(Findings, MaxFindings)}]

\* The inputs of the whole handler over several accounts: every way the token
\* and accounts fetches end, and one failure and a few payloads per account.
HandlerInputs ==
    [token |-> {Rejected, Http(401), Http(403), BadJson, Json(NullBody),
                Json(TokenBody("tok1")), Json(NoTokenBody)},
     accounts |-> {Rejected, Http(403), Http(500), BadJson, Json(NullBody),
                   Json(Envelope("OK", JNull)), Json(Envelope("OK", JObject)),
                   Json(Envelope("ERROR", JList(AccountList(1)))),
                   Json(Bare(JList(AccountList(1))))}
                  \cup {Json(Envelope("OK", JList(AccountList(n)))) : n \in 0..MaxOrgs},
     details |-> {Http(500), Json(Envelope("OK", DObj("FREE", 5, 2, 3))),
                  Json(Envelope("OK", DObj("Enterprise", 1, 1, 1)))},
     devices |-> {Http(500),
                  Json(Envelope("OK", JList(<<[is_excluded |-> FALSE, is_isolated |-> FALSE,
                                               is_sleeping |-> FALSE, alive |-> TRUE]>>)))},
     keys |-> {Http(500), Json(Envelope("OK", JList(<<[key_id |-> "k1"]>>)))},
     findings |-> {Http(500),
                   Json(Envelope("OK", JList(<<[priority |-> 1, status_name |-> "Open"]>>)))}]

\* ---------------------------------------------------------- specifications
InitCred ==
    /\ file = NoFile
    /\ posts = {}
    /\ last = NoCall
    /\ prev = NoCall

InitOrg ==
    /\ pc = "idle"
    /\ token = UndefStr
    /\ accounts = <<>>
    /\ accountsMeta = UndefStr
    /\ opc = [i \in Orgs |-> "idle"]
    /\ raw = [i \in Orgs |-> NoRaw]
    /\ rawToken = NoResp
    /\ rawAccounts = NoResp
    /\ loc = [i \in Orgs |-> InitLocals]
    /\ orgs = [i \in Orgs |-> NoOrg]
    /\ reqs = {}
    /\ response = NoResponse
    /\ finished = <<>>
    /\ tokenPosts = 0

InitDash ==
    /\ dpc = "idle"
    /\ dToken = UndefStr
    /\ dAccounts = JList(<<>>)
    /\ dFindings = JList(<<>>)
    /\ dRaw = NoDashRaw
    /\ dReqs = {}
    /\ dResponse = NoResponse

\* One GET of the organizations endpoint, with the inputs drawn from In.
NextWith(In) ==
    \/ Start
    \/ \E r \in In.token : TokenSettles(r)
    \/ \E r \in In.accounts : AccountsSettles(r)
    \/ \E i \in Orgs, r \in In.details : DetailsSettles(i, r)
    \/ \E i \in Orgs, r \in In.devices : DevicesSettles(i, r)
    \/ \E i \in Orgs, r \in In.keys : KeysSettles(i, r)
    \/ \E i \in Orgs, r \in In.findings : FindingsSettles(i, r)
    \/ Respond

\* The organizations endpoint over up to MaxOrgs accounts.
Init ==
    /\ env \in {[id |-> SetTo(<<"i">>), secret |-> SetTo(<<"s">>)],
                [id |-> Unset, secret |-> SetTo(<<"s">>)],
                [id |-> SetTo(<<"i">>), secret |-> SetTo(<<>>)]}
    /\ InitCred
    /\ InitOrg
    /\ InitDash
    /\ InitUi
Next == NextWith(HandlerInputs)
Spec == Init /\ [][Next]_vars

\* One account aggregated in depth.
InitAgg ==
    /\ env = [id |-> SetTo(<<"i">>), secret |-> SetTo(<<"s">>)]
    /\ InitCred
    /\ InitOrg
    /\ InitDash
    /\ InitUi
NextAgg == NextWith(RichInputs)
SpecAgg == InitAgg /\ [][NextAgg]_vars

\* The organizations endpoint when every upstream call settles: a handler
\* step that can be taken is taken, none is postponed for ever.
LiveInputs ==
    [token |-> {Rejected, Http(401), BadJson, Json(TokenBody("tok1"))},
     accounts |-> {Rejected, Http(500), BadJson, Json(Envelope("OK", JNull)),
                   Json(Envelope("OK", JList(AccountList(2))))},
     details |-> {Rejected, Json(Envelope("OK", DObj("FREE", 5, 2, 3)))},
     devices |-> {Http(500), Json(Envelope("OK", JList(<<>>)))},
     keys |-> {Json(NullBody), Json(Envelope("OK", JList(<<>>)))},
     findings |-> {Rejected, Json(Envelope("OK", JList(<<[priority |-> 1, status_name |-> "Open"]>>)))}]
NextLive == NextWith(LiveInputs)
SpecLive == Init /\ [][NextLive]_vars /\ WF_vars(NextLive)

\* Both data-fetching endpoints, interleaved: one GET of the dashboard
\* endpoint, and GETs of the organizations endpoint one after another, each
\* seeing every outcome of the token fetch and one account.
TokenResponses ==
    {Rejected, Http(401), HttpWith(403, "denied"), BadJson, Json(NullBody),
     Json(TokenBody("tok1")), Json(TokenBody("tok2")), Json(NoTokenBody)}
DataInputs ==
    [token |-> TokenResponses,
     accounts |-> {Http(500), Json(Envelope("OK", JList(AccountList(1))))},
     details |-> {Json(Envelope("OK", DObj("FREE", 5, 2, 3)))},
     devices |-> {Json(Envelope("OK", JList(<<>>)))},
     keys |-> {Http(500)},
     findings |-> {Json(Envelope("OK", JList(<<[priority |-> 1, status_name |-> "Open"]>>)))}]
DashInputs ==
    [token |-> TokenResponses,
     accounts |-> {Rejected, Http(403), HttpWith(500, "oops"), BadJson, Json(NullBody),
                   Json(Envelope("OK", JNull)), Json(Bare(JList(AccountList(1))))}
                  \cup {Json(Envelope("OK", JList(AccountList(n)))) : n \in 0..MaxOrgs},
     findings |-> {Rejected, Http(403), Http(500), BadJson}
                  \cup {Json(Envelope("OK", JList(l))) : l \in SeqsUpTo(Findings, MaxFindings)}]
NextDash ==
    \/ DashStart
    \/ \E r \in DashInputs.token : DashTokenSettles(r)
    \/ \E r \in DashInputs.accounts : DashAccountsSettles(r)
    \/ \E r \in DashInputs.findings : DashFindingsSettles(r)
InitData == Init
NextData == NextWith(DataInputs) \/ NewRequest \/ NextDash
SpecData == InitData /\ [][NextData]_vars


\* The credentials endpoint: status GETs, POSTs and DELETEs in any order, the
\* POSTs overlapping while they await the token endpoint.
ClientIds == {<<"a">>, <<"a", "b">>}
ClientSecrets == {<<"s">>, <<"s", "t", "u">>}
PostedIds == {Unset, SetTo(<<>>)} \cup {SetTo(v) : v \in ClientIds}
PostedSecrets == {Unset} \cup {SetTo(v) : v \in ClientSecrets}
AuthResponses ==
    {Rejected, Http(401), BadJson, Json(NullBody),
     Json(TokenBody("tok1")), Json(NoTokenBody)}
FsOutcomes == {"ok", "read", "write"}

InitCredentials ==
    /\ \/ /\ file = NoFile
          /\ env \in {[id |-> Unset, secret |-> Unset],
                      [id |-> SetTo(<<"a">>), secret |-> SetTo(<<"s">>)]}
       \/ /\ file = FileOf(<<"x">>)
          /\ env = [id |-> Unset, secret |-> Unset]
       \/ /\ file = FileOf(<<"ID=", "a", "\n", "x", "\n", "SECRET=", "s">>)
          /\ env = [id |-> SetTo(<<"a">>), secret |-> SetTo(<<"s">>)]
    /\ posts = {}
    /\ last = NoCall
    /\ prev = NoCall
    /\ InitOrg
    /\ InitDash
    /\ InitUi
NextCredentials ==
    \/ GetStatus
    \/ \E parses \in BOOLEAN, id \in PostedIds, secret \in PostedSecrets :
           PostArrives(parses, id, secret)
    \/ \E p \in posts, r \in AuthResponses, fs \in FsOutcomes : PostSettles(p, r, fs)
    \/ \E fs \in FsOutcomes : Delete(fs)
SpecCredentials == InitCredentials /\ [][NextCredentials]_vars


\* Credentials POSTs only, overlapping, each submitting one of two pairs that
\* share neither the id nor the secret.
PostedPairs == {<<<<"a">>, <<"s">>>>, <<<<"a", "b">>, <<"s", "t", "u">>>>}
NextPosts ==
    \/ GetStatus
    \/ \E pr \in PostedPairs : PostArrives(TRUE, SetTo(pr[1]), SetTo(pr[2]))
    \/ \E p \in posts, r \in AuthResponses, fs \in FsOutcomes : PostSettles(p, r, fs)
SpecPosts == InitCredentials /\ [][NextPosts]_vars

\* The Dashboard component: up to MaxCalls fetchData calls, overlapping
\* where the views allow, each ending in any way a fetch can.
FetchOutcomes ==
    {OkResult, RejectedFetch, NotJson, FailResult(NoError),
     FailResult(Text(<<"BLUMIRA_CLIENT_ID", "and", "BLUMIRA_CLIENT_SECRET", "environment", "variables", "are", "required">>)),
     FailResult(Text(<<"Authentication", "failed", ":", "401">>)),
     FailResult(Text(<<"failed", "Authentication">>))}
NextUi ==
    \/ Mount
    \/ handleRefresh
    \/ handleCredentialsUpdated
    \/ \E c \in 1..MaxCalls, o \in FetchOutcomes : FetchSettles(c, o)
SpecUi == InitAgg /\ [][NextUi]_vars


\* ------------------------------------------------------------------ claims
\* The accounts whose summary has been produced.
Summarized == {i \in Orgs : opc[i] = "done"}

\* The devices of a summary that are not excluded.
Included(org) == {n \in DOMAIN org.agentDevices.items : ~org.agentDevices.items[n].is_excluded}

\* The badge getDeviceStatusBadge shows for a device:
\* excluded > isolated > sleeping > online.
Badge(device) ==
    IF device.is_excluded THEN "Excluded"
    ELSE IF device.is_isolated THEN "Isolated"
    ELSE IF device.is_sleeping THEN "Sleeping"
    ELSE "Online"
HasBadge(org, b) == {n \in DOMAIN org.agentDevices.items : Badge(org.agentDevices.items[n]) = b}

\* C1: in every per-organization summary the excluded devices are counted in
\* excludedDevices and contribute to none of onlineDevices, sleepingDevices
\* and isolatedDevices, whatever their other flags are: each of those three
\* counts is the count over the devices that are not excluded.
C1_ExcludedOnlyInExcluded ==
    \A i \in Summarized :
        LET d == orgs[i].agentDevices.items
            kept == Included(orgs[i])
        IN /\ orgs[i].excludedDevices = Len(d) - Cardinality(kept)
           /\ orgs[i].onlineDevices = Cardinality({n \in kept : IsOnline(d[n])})
           /\ orgs[i].sleepingDevices = Cardinality({n \in kept : IsSleeping(d[n])})
           /\ orgs[i].isolatedDevices = Cardinality({n \in kept : IsIsolated(d[n])})

\* C2: in every per-organization summary each of the four device counts is the
\* number of the organization's devices that show the corresponding badge, so
\* the four counts never sum to more than agentDeviceCount.
C2_CountsFollowBadge ==
    \A i \in Summarized :
        /\ orgs[i].excludedDevices = Cardinality(HasBadge(orgs[i], "Excluded"))
        /\ orgs[i].isolatedDevices = Cardinality(HasBadge(orgs[i], "Isolated"))
        /\ orgs[i].sleepingDevices = Cardinality(HasBadge(orgs[i], "Sleeping"))
        /\ orgs[i].onlineDevices = Cardinality(HasBadge(orgs[i], "Online"))
        /\ orgs[i].onlineDevices + orgs[i].sleepingDevices + orgs[i].isolatedDevices
               + orgs[i].excludedDevices <= orgs[i].agentDeviceCount


\* The fields of totals and the per-organization field each one sums.
TotalsOf ==
    {<<"totalAgentDevices", "agentDeviceCount">>, <<"totalAgentKeys", "agentKeyCount">>,
     <<"totalFindings", "findingsCount">>,
     <<"totalCriticalFindings", "criticalFindingsCount">>,
     <<"totalOpenFindings", "openFindingsCount">>,
     <<"totalOnlineDevices", "onlineDevices">>, <<"totalSleepingDevices", "sleepingDevices">>,
     <<"totalIsolatedDevices", "isolatedDevices">>,
     <<"totalExcludedDevices", "excludedDevices">>,
     <<"totalAgentCountAvailable", "agent_count_available">>,
     <<"totalAgentCountUsed", "agent_count_used">>, <<"totalUserCount", "user_count">>}

\* The arithmetic sum of a field over a list of records.
RECURSIVE PlainSum(_, _)
PlainSum(list, f) == IF list = <<>> THEN 0 ELSE list[1][f] + PlainSum(Tail(list), f)

\* C3: in every 200 response each numeric field of totals is a number, the sum
\* over the returned organizations of the corresponding per-organization
\* field (0 when there are none).
C3_TotalsAreSums ==
    response.status = 200 =>
        \A p \in TotalsOf :
            /\ response.totals[p[1]] \in Nat
            /\ response.totals[p[1]] = PlainSum(response.organizations, p[2])

\* What a list fetch carries in the inputs of Spec, where every parsed body is
\* an "OK" envelope around a list.
CarriedList(r) == IF r.k = "json" THEN r.body.data ELSE JList(<<>>)
CarriedLicense(r) == IF r.k = "json" THEN r.body.data.license ELSE "Unknown"

\* C4: if the findings fetch of an organization fails with a non-2xx status,
\* its summary has findings = [] and findingsCount = criticalFindingsCount =
\* openFindingsCount = 0, the endpoint still answers 200, and every
\* organization's summary is what its own four answers carry.
C4_FindingsFailureDegrades ==
    /\ \A i \in Summarized :
           raw[i].findings.k = "http" =>
               /\ orgs[i].findings = JList(<<>>)
               /\ orgs[i].findingsCount = 0
               /\ orgs[i].criticalFindingsCount = 0
               /\ orgs[i].openFindingsCount = 0
    /\ \A j \in Summarized :
           /\ orgs[j].id = accounts[j].account_id
           /\ orgs[j].license = CarriedLicense(raw[j].details)
           /\ orgs[j].agentDevices = CarriedList(raw[j].devices)
           /\ orgs[j].agentKeys = CarriedList(raw[j].keys)
           /\ orgs[j].findings = CarriedList(raw[j].findings)
           /\ orgs[j].findingsCount = Len(CarriedList(raw[j].findings).items)
    /\ (pc = "done" /\ \E i \in Orgs : raw[i].findings.k = "http") =>
           /\ response.status = 200
           /\ Len(response.organizations) = Len(accounts)
           /\ \A j \in 1..Len(accounts) : response.organizations[j] = orgs[j]

\* C4 witness: a 200 response over two organizations, the findings fetch of
\* the first failed with a non-2xx status, the second kept its finding.
C4_Witness ==
    /\ pc = "done" /\ response.status = 200 /\ Len(accounts) = 2
    /\ raw[1].findings.k = "http" /\ orgs[1].findingsCount = 0
    /\ raw[2].findings.k = "json" /\ orgs[2].findingsCount = 1

\* The per-organization endpoints.
OrgCalls == {"details", "devices", "keys", "findings"}

\* C5: if the accounts-list fetch answers non-2xx, the endpoint answers 500
\* with an error message that contains that status, no per-organization
\* request is issued, and no organizations or totals are returned.
C5_AccountsFailureAborts ==
    rawAccounts.k = "http" =>
        /\ pc = "done"
        /\ response.status = 500
        /\ response.error.text = "Failed to fetch MSP accounts"
        /\ response.error.code = rawAccounts.status
        /\ \A q \in reqs : q.url \notin OrgCalls
        /\ "organizations" \notin DOMAIN response
        /\ "totals" \notin DOMAIN response
        /\ \A i \in Orgs : opc[i] = "idle"

\* C5 witness: the accounts-list fetch answered 403 and the handler answered.
C5_Witness ==
    /\ rawAccounts.k = "http" /\ rawAccounts.status = 403
    /\ response.status = 500 /\ response.error.code = 403

\* C6 (as amended): a status GET that follows a POST which answered 200
\* reports hasCredentials with the non-zero lengths of the submitted id and
\* secret; a status GET that follows a DELETE which answered 200 reports no
\* credentials, hasClientId = hasClientSecret = false and both lengths 0.
C6_RoundTrip ==
    last.op = "GET" =>
        /\ (prev.op = "POST" /\ prev.code = 200) =>
               /\ last.body.hasCredentials
               /\ last.body.clientIdLength = Len(prev.id)
               /\ last.body.clientSecretLength = Len(prev.secret)
               /\ Len(prev.id) > 0 /\ Len(prev.secret) > 0
        /\ (prev.op = "DELETE" /\ prev.code = 200) =>
               /\ ~last.body.hasCredentials
               /\ ~last.body.hasClientId
               /\ ~last.body.hasClientSecret
               /\ last.body.clientIdLength = 0
               /\ last.body.clientSecretLength = 0

\* C6 witness: a status GET after a DELETE that answered 200, itself after a
\* POST that answered 200.
C6_Witness ==
    /\ last.op = "GET" /\ ~last.body.hasCredentials
    /\ prev.op = "DELETE" /\ prev.code = 200 /\ prev.prior = "POST"

\* C6 as stated: a status GET that follows a POST whose pair the token endpoint
\* accepted reports hasCredentials with the lengths of the submitted values,
\* and a status GET that follows a DELETE reports no credentials.
C6_AsStated ==
    last.op = "GET" =>
        /\ (prev.op = "POST" /\ prev.accepted) =>
               /\ last.body.hasCredentials
               /\ last.body.clientIdLength = Len(prev.id)
               /\ last.body.clientSecretLength = Len(prev.secret)
        /\ prev.op = "DELETE" =>
               /\ ~last.body.hasCredentials
               /\ last.body.clientIdLength = 0
               /\ last.body.clientSecretLength = 0

\* C7: in every 200 response licenseBreakdown has exactly the licenses of the
\* returned organizations as keys, and each key's value is the number of
\* organizations with exactly that license.
C7_LicenseHistogram ==
    response.status = 200 =>
        LET list == response.organizations
            lb == response.totals.licenseBreakdown
        IN /\ DOMAIN lb = {list[i].license : i \in DOMAIN list}
           /\ \A L \in DOMAIN lb :
                  lb[L] = NumEntry(Cardinality({i \in DOMAIN list : list[i].license = L}))

\* The devices endpoint returned no devices, or the devices fetch failed.
NoDevices(r) ==
    \/ r.k \in {"reject", "http", "badjson"}
    \/ r.k = "json" /\ r.body.shape = "envelope" /\ r.body.status = "OK"
       /\ r.body.data = JList(<<>>)

\* C8: an organization whose devices endpoint returned no devices, or whose
\* devices fetch failed, has onlineDevices = sleepingDevices = isolatedDevices
\* = excludedDevices = 0 and agentDeviceCount = 0.
C8_NoDevicesAllZero ==
    \A i \in Summarized :
        NoDevices(raw[i].devices) =>
            /\ orgs[i].onlineDevices = 0
            /\ orgs[i].sleepingDevices = 0
            /\ orgs[i].isolatedDevices = 0
            /\ orgs[i].excludedDevices = 0
            /\ orgs[i].agentDeviceCount = 0

\* C8 witness: a summary whose devices fetch failed with a non-2xx status
\* while its findings fetch returned a finding.
C8_Witness ==
    \E i \in Summarized :
        /\ raw[i].devices.k = "http"
        /\ orgs[i].findingsCount = 1
        /\ orgs[i].agentDeviceCount = 0

\* The count fields of an organization record.
CountFields ==
    {"agentDeviceCount", "agentKeyCount", "findingsCount", "criticalFindingsCount",
     "openFindingsCount", "onlineDevices", "sleepingDevices", "isolatedDevices",
     "excludedDevices", "agent_count_available", "agent_count_used", "user_count"}

\* C9: in every 200 response every organization record has agentDevices,
\* agentKeys and findings as lists, every count field as a non-negative
\* integer, and the three list counts equal to the lengths of the lists.
C9_StructurallyComplete ==
    response.status = 200 =>
        \A i \in DOMAIN response.organizations :
            LET org == response.organizations[i]
            IN /\ org.agentDevices.t = "list"
               /\ org.agentKeys.t = "list"
               /\ org.findings.t = "list"
               /\ \A f \in CountFields : org[f] \in Nat
               /\ org.agentDeviceCount = Len(org.agentDevices.items)
               /\ org.agentKeyCount = Len(org.agentKeys.items)
               /\ org.findingsCount = Len(org.findings.items)

\* A list call that succeeded with a well-formed payload, and a details call
\* that did.
GoodList(r) == r.k = "json" /\ r.body.shape = "envelope" /\ r.body.status = "OK"
               /\ r.body.data.t = "list"
GoodDetails(r) == r.k = "json" /\ (r.body.shape = "bare" \/ (r.body.shape = "envelope" /\ r.body.data.t = "object"))
DetailsPayload(r) == IF r.body.shape = "bare" THEN r.body.self ELSE r.body.data

\* C10: each of the four calls contributes its own payload when it succeeded
\* and the default (empty list, "Unknown", 0) when it failed (non-2xx,
\* rejection, unparseable or malformed body), whatever the other three did.
C10_CallsIsolated ==
    \A i \in Summarized :
        /\ orgs[i].agentDevices
               = IF GoodList(raw[i].devices) THEN raw[i].devices.body.data ELSE JList(<<>>)
        /\ orgs[i].agentKeys
               = IF GoodList(raw[i].keys) THEN raw[i].keys.body.data ELSE JList(<<>>)
        /\ orgs[i].findings
               = IF GoodList(raw[i].findings) THEN raw[i].findings.body.data ELSE JList(<<>>)
        /\ orgs[i].license
               = IF GoodDetails(raw[i].details)
                 THEN OrUnknown(StrField(DetailsPayload(raw[i].details), "license"))
                 ELSE "Unknown"
        /\ orgs[i].agent_count_used
               = IF GoodDetails(raw[i].details)
                 THEN OrZero(NumField(DetailsPayload(raw[i].details), "agent_count_used"))
                 ELSE 0

\* A credential that process.env does not hold, or holds as the empty string.
Absent(e) == e = Unset \/ (e.set /\ Len(e.val) = 0)

\* C11: while the client id or the client secret is absent from (or empty in)
\* process.env, neither data-fetching endpoint issues an upstream request,
\* and each one that has answered answered 500 with the error text that names
\* BLUMIRA_CLIENT_ID and BLUMIRA_CLIENT_SECRET.
C11_MissingCredentialsFailFast ==
    (Absent(env.id) \/ Absent(env.secret)) =>
        /\ reqs = {} /\ dReqs = {}
        /\ pc \in {"idle", "done"} /\ dpc \in {"idle", "done"}
        /\ pc = "done" =>
               /\ response.status = 500
               /\ response.error = MissingCredentials
        /\ dpc = "done" =>
               /\ dResponse.status = 500
               /\ dResponse.error = MissingCredentials

\* C11 witness: the secret is empty and both endpoints have answered 500.
C11_Witness ==
    /\ ~Absent(env.id) /\ Absent(env.secret)
    /\ pc = "done" /\ response.status = 500
    /\ dpc = "done" /\ dResponse.status = 500

\* The token endpoint answered 2xx with a JSON object that has no access_token.
NoTokenInBody(r) ==
    /\ r.k = "json" /\ r.body.shape = "bare"
    /\ "access_token" \notin DOMAIN r.body.self
\* The token endpoint answered 2xx with a body that is no JSON object.
NoObjectBody(r) == r.k = "badjson" \/ (r.k = "json" /\ r.body.shape = "null")

\* A credentials POST has just answered 400 or 401.
PostRefused == last' # last /\ last'.op = "POST" /\ last'.code \in {400, 401}

\* The answers of the credentials POST that C12 shares with its amendment: a
\* parsed body without id or secret answers 400 and the token endpoint is not
\* called; a non-2xx answer of the token endpoint, or a JSON object without
\* access_token, answers 401.
PostValidates ==
    last.op = "POST" =>
        /\ (last.parsed /\ (last.id = <<>> \/ last.secret = <<>>)) =>
               last.code = 400 /\ last.auth = NoResp
        /\ last.auth.k = "http" => last.code = 401
        /\ NoTokenInBody(last.auth) => last.code = 401

C13_MissingTokenFails ==
    /\ NoTokenInBody(rawToken) =>
           /\ pc = "done" /\ response.status = 500
           /\ \A q \in reqs : q.url = "token"
    /\ NoTokenInBody(dRaw.token) =>
           /\ dpc = "done" /\ dResponse.status = 500
           /\ \A q \in dReqs : q.url = "token"

\* C14: on both data-fetching endpoints, once the token endpoint has answered
\* with a non-2xx status, the request has ended with a 500 response whose
\* error is the authentication error with that status and the response body,
\* and no resource GET has been issued.
C14_AuthFailureAborts ==
    /\ rawToken.k = "http" =>
           /\ pc = "done" /\ response.status = 500
           /\ response.error.text = "Authentication failed"
           /\ response.error.code = rawToken.status
           /\ response.error.detail = ResponseText(rawToken)
           /\ \A q \in reqs : q.url = "token"
    /\ dRaw.token.k = "http" =>
           /\ dpc = "done" /\ dResponse.status = 500
           /\ dResponse.error.text = "Authentication failed"
           /\ dResponse.error.code = dRaw.token.status
           /\ ResponseText(dRaw.token) # "" =>
                  dResponse.error.detail = ResponseText(dRaw.token)
           /\ dResponse.details.message = dResponse.error
           /\ \A q \in dReqs : q.url = "token"

\* C14 witness: the token endpoint answered 403 with a body to both endpoints
\* and both answered 500 with it.
C14_Witness ==
    /\ rawToken.k = "http" /\ rawToken.status = 403 /\ response.error.detail = "denied"
    /\ dRaw.token.k = "http" /\ dRaw.token.status = 403 /\ dResponse.error.detail = "denied"

\* C15: on the dashboard endpoint, once the accounts-list fetch has failed
\* (rejection, non-2xx status or unparseable body), the request has been
\* aborted with a 500 response: it does not go on to the findings fetch and
\* answers no 200.
C15_DashboardAccountsFailureAborts ==
    dRaw.accounts.k \in {"reject", "http", "badjson"} =>
        /\ dpc = "done"
        /\ dResponse.status = 500
        /\ \A q \in dReqs : q.url # "findings"

\* C16: in every 200 response organizations has one record per account of the
\* list the accounts endpoint returned, and organizations[i] is the summary
\* of the i-th account of that list, whatever order the aggregations
\* completed in.
C16_OrderFollowsAccounts ==
    response.status = 200 =>
        LET returned == rawAccounts.body.data.items
        IN /\ Len(response.organizations) = Len(returned)
           /\ \A i \in 1..Len(returned) :
                  /\ response.organizations[i].id = returned[i].account_id
                  /\ response.organizations[i].name = returned[i].name
                  /\ response.organizations[i] = orgs[i]

\* C16 witness: a 200 response over two accounts whose second aggregation
\* completed before the first.
C16_Witness ==
    /\ response.status = 200
    /\ finished = <<2, 1>>
    /\ response.organizations[1].id = 1 /\ response.organizations[2].id = 2

\* The payload rule of C17 for one fetch r whose fetcher kept got: an "OK"
\* envelope yields its data field, a body without the wrapper yields itself.
YieldsPayload(r, got) ==
    /\ (r.k = "json" /\ r.body.shape = "envelope" /\ r.body.status = "OK"
        /\ Truthy(r.body.data)) => got = r.body.data
    /\ (r.k = "json" /\ r.body.shape = "bare") => got = r.body.self

\* C17: each resource fetcher (accounts list, details, devices, keys,
\* findings) yields the data field of an "OK" envelope and the whole body of a
\* 2xx response that has no wrapper; a bare accounts list is not turned into
\* an error.
C17_EnvelopeTolerance ==
    /\ \A i \in Orgs :
           /\ YieldsPayload(raw[i].details, loc[i].accountDetails)
           /\ YieldsPayload(raw[i].devices, loc[i].agentDevices)
           /\ YieldsPayload(raw[i].keys, loc[i].agentKeys)
           /\ YieldsPayload(raw[i].findings, loc[i].findings)
    /\ (rawAccounts.k = "json" /\ rawAccounts.body.shape = "bare"
        /\ rawAccounts.body.self.t = "list") =>
           /\ response.status # 500
           /\ accounts = rawAccounts.body.self.items

\* C18: a summary whose detail fetch failed has agent_count_available =
\* agent_count_used = user_count = 0 and license = "Unknown", whatever the
\* accounts-list entry carries; a summary whose detail fetch succeeded has the
\* four values of the detail payload, 0 / "Unknown" for a field it lacks.
C18_DetailFieldsOrDefaults ==
    \A i \in Summarized :
        LET r == raw[i].details
            d == IF GoodDetails(r) THEN DetailsPayload(r) ELSE DNull
        IN /\ orgs[i].agent_count_available = OrZero(NumField(d, "agent_count_available"))
           /\ orgs[i].agent_count_used = OrZero(NumField(d, "agent_count_used"))
           /\ orgs[i].user_count = OrZero(NumField(d, "user_count"))
           /\ orgs[i].license = OrUnknown(StrField(d, "license"))

\* C19: in every summary findingsCount is the number of findings,
\* criticalFindingsCount the number of findings whose priority is 1, and
\* openFindingsCount the number of findings whose status_name is the string
\* "Open" (not "open"); so neither exceeds findingsCount.
C19_FindingsCounts ==
    \A i \in Summarized :
        LET f == orgs[i].findings.items
        IN /\ orgs[i].findingsCount = Len(f)
           /\ orgs[i].criticalFindingsCount = Cardinality({n \in DOMAIN f : f[n].priority = 1})
           /\ orgs[i].openFindingsCount = Cardinality({n \in DOMAIN f : f[n].status_name = "Open"})
           /\ orgs[i].criticalFindingsCount <= orgs[i].findingsCount
           /\ orgs[i].openFindingsCount <= orgs[i].findingsCount

\* C19 witness: a summary with one critical finding whose status is "open":
\* it is counted as a finding and as critical, not as open.
C19_Witness ==
    \E i \in Summarized :
        /\ orgs[i].findings = JList(<<[priority |-> 1, status_name |-> "open"]>>)
        /\ orgs[i].findingsCount = 1
        /\ orgs[i].criticalFindingsCount = 1
        /\ orgs[i].openFindingsCount = 0

\* The requests issued for account i.
IssuedFor(i) == {q.url : q \in {x \in reqs : x.org = accounts[i].account_id}}

\* C20: within one organization the four fetches are all issued before any of
\* them has resolved, and the summary is computed only after all four have
\* resolved.
C20_FetchesConcurrent ==
    \A i \in 1..Len(accounts) :
        /\ (\E c \in OrgCalls : raw[i][c] # NoResp) => OrgCalls \subseteq IssuedFor(i)
        /\ i \in Summarized => \A c \in OrgCalls : raw[i][c] # NoResp

\* C21: once the fan-out has begun, the aggregation of every account has been
\* started; and a 200 response is sent only when every account's aggregation
\* has completed: it holds one record per account and totals over all of
\* them, never over a strict subset.
C21_JoinBarrier ==
    /\ pc = "fanout" =>
           \A i \in 1..Len(accounts) : opc[i] # "idle" /\ "details" \in IssuedFor(i)
    /\ response.status = 200 =>
           /\ \A i \in 1..Len(accounts) : opc[i] = "done"
           /\ Len(response.organizations) = Len(accounts)
           /\ \A p \in TotalsOf :
                  response.totals[p[1]] = PlainSum([i \in 1..Len(accounts) |-> orgs[i]], p[2])
    /\ (pc = "fanout" /\ \E i \in 1..Len(accounts) : opc[i] # "done") =>
           response = NoResponse

\* C21 witness: a 200 response over two accounts, the second completed first,
\* with the devices of both in the totals.
C21_Witness ==
    /\ response.status = 200 /\ Len(accounts) = 2 /\ finished = <<2, 1>>
    /\ response.totals.totalAgentDevices = 2

\* The token a settled token POST yields.
Obtained(r) == StrField(AsPayload(r.body), "access_token")

Answered ==
    \/ response.status = 200
         /\ DOMAIN response = {"status", "organizations", "meta", "totals", "debug"}
    \/ response.status = 500
         /\ DOMAIN response = {"status", "error", "timestamp"}

\* C23: when every upstream call settles, an organizations GET ends with a
\* response, a 200 carrying organizations, meta, totals and debug or a 500
\* carrying error and timestamp, and a response once given is never replaced.
C23_AlwaysAnswers ==
    /\ <>(pc = "done" /\ Answered)
    /\ [][response # NoResponse => response' = response]_vars

C23_Witness ==
    /\ pc = "done" /\ response.status = 200 /\ Len(accounts) = 2
    /\ raw[1].details = Rejected /\ raw[2].findings = Rejected
    /\ raw[2].keys = Json(NullBody)

\* The call that settled last, and whether a call failed.
LastSettled == calls[settled[Len(settled)]]
Failed(o) == o.k \in {"fail", "reject", "badjson"}
AllSettled == settled # <<>> /\ Len(settled) = Len(calls)

\* The three texts that name a credentials problem, and whether the error
\* text of a failed response contains one of them.
CredentialTexts ==
    {<<"BLUMIRA_CLIENT_ID">>, <<"BLUMIRA_CLIENT_SECRET">>, <<"Authentication", "failed">>}
NamesCredentials(o) ==
    /\ o.k = "fail"
    /\ \E n \in CredentialTexts, i \in 1..Len(o.error.words) :
           /\ i + Len(n) - 1 <= Len(o.error.words)
           /\ SubSeq(o.error.words, i, i + Len(n) - 1) = n

\* C24: once the last fetch to settle has failed, no fetch is in flight and
\* loading has ended, the credentials-setup view is shown exactly when the
\* error text of that failed response contains one of the three texts, and
\* the generic error view otherwise; every new fetch clears credentialsError
\* when it starts.
C24_CredentialsViewIffNamed ==
    /\ [](AllSettled /\ ~loading /\ Failed(LastSettled)
            => View = IF NamesCredentials(LastSettled) THEN "credentials" ELSE "error")
    /\ [][Len(calls') > Len(calls) => ~credentialsError']_vars

\* The credential lines of the file, and the last POST or DELETE that
\* answered 200.
IsIdLine(line) == StartsWith(line, "ID=")
IsSecretLine(line) == StartsWith(line, "SECRET=")
IdLines(f) == IF f.exists THEN SelectSeq(Split(f.content), IsIdLine) ELSE <<>>
SecretLines(f) == IF f.exists THEN SelectSeq(Split(f.content), IsSecretLine) ELSE <<>>
LastOkOp == IF prev.code = 200 THEN prev.op ELSE prev.prior
Installed(id, secret) ==
    /\ env = [id |-> SetTo(id), secret |-> SetTo(secret)]
    /\ IdLines(file) = <<<<"ID=">> \o id>>
    /\ SecretLines(file) = <<<<"SECRET=">> \o secret>>

\* C25: with credentials POSTs overlapping, once a POST has succeeded the
\* file and the environment hold the same pair, the pair one POST submitted
\* (the one that succeeded last), at every moment and so after all of them
\* have completed.
C25_OnePairInstalled ==
    /\ LastOkOp = "POST" => \E pr \in PostedPairs : Installed(pr[1], pr[2])
    /\ (prev.op = "POST" /\ prev.code = 200) => Installed(prev.id, prev.secret)

C25_Witness ==
    /\ prev.op = "POST" /\ prev.code = 200 /\ prev.others = 1
    /\ Installed(<<"a", "b">>, <<"s", "t", "u">>)

\* C26: at every moment of any sequence of credentials calls the file has at
\* most one client-id line and at most one client-secret line; when the last
\* call that succeeded is a POST it has exactly one of each, carrying the
\* pair of that POST, which is also the pair of the environment; when it is
\* a DELETE the file has neither line and the environment neither credential.
C26_OneLineEach ==
    /\ Len(IdLines(file)) <= 1 /\ Len(SecretLines(file)) <= 1
    /\ LastOkOp = "POST" =>
           /\ Len(IdLines(file)) = 1 /\ Len(SecretLines(file)) = 1
           /\ env.id.set /\ env.secret.set
           /\ IdLines(file)[1] = <<"ID=">> \o env.id.val
           /\ SecretLines(file)[1] = <<"SECRET=">> \o env.secret.val
           /\ (prev.code = 200 => env.id.val = prev.id /\ env.secret.val = prev.secret)
    /\ LastOkOp = "DELETE" =>
           /\ IdLines(file) = <<>> /\ SecretLines(file) = <<>>
           /\ env = [id |-> Unset, secret |-> Unset]

C26_Witness ==
    /\ prev.op = "POST" /\ prev.code = 200 /\ prev.prior = "POST"
    /\ env.id.val = <<"a", "b">> /\ env.secret.val = <<"s">>
    /\ Split(file.content) = <<<<"x">>, <<"ID=", "a", "b">>, <<"SECRET=", "s">>>>

\* The lines of the file, none when there is no file, and those of them that
\* are no credential lines.
AllLines(f) == IF f.exists THEN Split(f.content) ELSE <<>>
OtherLinesOf(f) == SelectSeq(AllLines(f), IsOtherLine)

\* C27: no step of the credentials endpoint changes the lines of the file
\* that are no credential lines, their order included, and none adds a line
\* beyond the two credential lines of a POST.
C27_OtherLinesKept ==
    [][/\ OtherLinesOf(file') = OtherLinesOf(file)
       /\ Len(AllLines(file')) <= Len(OtherLinesOf(file)) + 2]_vars

\* C28: a step in which a credentials POST or DELETE answers 500 leaves the
\* credentials of the environment as they were.
C28_FailureKeepsEnv ==
    [][(last'.op \in {"POST", "DELETE"} /\ last'.code = 500) => env' = env]_vars

C28_Witness ==
    /\ last.op = "DELETE" /\ last.code = 500 /\ last.prior = "POST"
    /\ env = [id |-> SetTo(<<"a", "b">>), secret |-> SetTo(<<"s">>)]

\* The call issued last.
LastIssued == calls[Len(calls)]

\* C29: once every fetchData call has settled, two or more having been
\* issued, the error, the credentials-error flag and the data are those the
\* call issued last leaves: after its success its data, no error and no
\* flag; after its failure its message and the flag its text calls for.
C29_LastIssuedWins ==
    (AllSettled /\ Len(calls) >= 2) =>
        IF LastIssued.k = "ok"
        THEN data = Len(calls) /\ error = NoError /\ ~credentialsError
        ELSE error = ErrorMessage(LastIssued) /\ credentialsError = NamesCredentials(LastIssued)

\* C30: the open_findings of an organization in the response is the
\* open_findings of its accounts-list entry, the value 0 included; an entry
\* without one takes the computed openFindingsCount.
C30_ListedOpenFindings ==
    response.status = 200 =>
        \A i \in 1..Len(response.organizations) :
            response.organizations[i].open_findings =
                IF accounts[i].open_findings # Undef
                THEN accounts[i].open_findings
                ELSE orgs[i].openFindingsCount

====
